---------------------------- MODULE Spec2Model ----------------------------
(***************************************************************************)
(* Model of the hero API (heroapp/views.py, heroapp/models.py).            *)
(*                                                                         *)
(* Text is modelled as a sequence of one-character strings, so that        *)
(* stripping, prefix tests, case folding and integer parsing are computed  *)
(* character by character, the way the Python code computes them.          *)
(***************************************************************************)
EXTENDS Integers, Sequences, FiniteSets, TLC

VARIABLES
    store,      \* the Hero table: a set of rows
    nextId,     \* the table's auto-increment counter
    req,        \* the request being answered
    resp,       \* the response given to req
    hero_data,  \* what _fetch_hero_from_api returned or raised during req (NotCalled if it was not called)
    pc,         \* per client: position inside update_or_create (concurrent specification)
    local       \* per client: the hero_data its POST is storing (concurrent specification)

vars == <<store, nextId, req, resp, hero_data, pc, local>>

(***************************************************************************)
(* Bounds of the model.                                                    *)
(***************************************************************************)
MaxRawLen == 4      \* longest raw filter value handed to the parser
MaxEntries == 2     \* longest upstream entry list

(***************************************************************************)
(* Python str operations.                                                  *)
(***************************************************************************)
IsSpace(c) == c = " "

RECURSIVE lstrip(_)
lstrip(s) == IF s # <<>> /\ IsSpace(Head(s)) THEN lstrip(Tail(s)) ELSE s

RECURSIVE rstrip(_)
rstrip(s) ==
    IF s # <<>> /\ IsSpace(s[Len(s)]) THEN rstrip(SubSeq(s, 1, Len(s) - 1)) ELSE s

strip(s) == rstrip(lstrip(s))

startswith(s, p) == Len(s) >= Len(p) /\ SubSeq(s, 1, Len(p)) = p

LowerChar(c) == CASE c = "A" -> "a" [] c = "B" -> "b" [] OTHER -> c

UpperChar(c) == CASE c = "a" -> "A" [] c = "b" -> "B" [] OTHER -> c

lower(s) == [i \in 1..Len(s) |-> LowerChar(s[i])]

upper(s) == [i \in 1..Len(s) |-> UpperChar(s[i])]

DigitChars == {"0", "1", "2", "3", "4", "5", "6", "7", "8", "9"}

DigitVal(c) ==
    CASE c = "0" -> 0 [] c = "1" -> 1 [] c = "2" -> 2 [] c = "3" -> 3
      [] c = "4" -> 4 [] c = "5" -> 5 [] c = "6" -> 6 [] c = "7" -> 7
      [] c = "8" -> 8 [] c = "9" -> 9

\* The digits of an int() literal: digits, with single underscores between them.
DigitGroups(u) ==
    /\ u # <<>>
    /\ u[1] \in DigitChars
    /\ u[Len(u)] \in DigitChars
    /\ \A i \in 1..Len(u) : u[i] \in DigitChars \cup {"_"}
    /\ \A i \in 1..(Len(u) - 1) : ~(u[i] = "_" /\ u[i + 1] = "_")

RECURSIVE DigitsValue(_, _)
DigitsValue(u, acc) ==
    IF u = <<>> THEN acc
    ELSE IF Head(u) = "_" THEN DigitsValue(Tail(u), acc)
    ELSE DigitsValue(Tail(u), 10 * acc + DigitVal(Head(u)))

\* int(text): surrounding whitespace ignored, an optional sign, then the digits.
py_int(text) ==
    LET t == strip(text)
        signed == t # <<>> /\ Head(t) \in {"+", "-"}
        u == IF signed THEN Tail(t) ELSE t
    IN  IF DigitGroups(u)
        THEN [ok |-> TRUE,
              val |-> IF signed /\ Head(t) = "-" THEN 0 - DigitsValue(u, 0)
                      ELSE DigitsValue(u, 0)]
        ELSE [ok |-> FALSE]

(***************************************************************************)
(* _parse_numeric_query                                                    *)
(***************************************************************************)
PrefixTwoFirst(original) ==
    IF startswith(original, <<">", "=">>) THEN [lookup |-> "gte", number |-> SubSeq(original, 3, Len(original))]
    ELSE IF startswith(original, <<"<", "=">>) THEN [lookup |-> "lte", number |-> SubSeq(original, 3, Len(original))]
    ELSE IF startswith(original, <<">">>) THEN [lookup |-> "gt", number |-> Tail(original)]
    ELSE IF startswith(original, <<"<">>) THEN [lookup |-> "lt", number |-> Tail(original)]
    ELSE [lookup |-> "exact", number |-> original]

\* A plausible slip: the one-character prefixes tested first.
PrefixOneFirst(original) ==
    IF startswith(original, <<">">>) THEN [lookup |-> "gt", number |-> Tail(original)]
    ELSE IF startswith(original, <<"<">>) THEN [lookup |-> "lt", number |-> Tail(original)]
    ELSE IF startswith(original, <<">", "=">>) THEN [lookup |-> "gte", number |-> SubSeq(original, 3, Len(original))]
    ELSE IF startswith(original, <<"<", "=">>) THEN [lookup |-> "lte", number |-> SubSeq(original, 3, Len(original))]
    ELSE [lookup |-> "exact", number |-> original]

SplitPrefix(original) == PrefixTwoFirst(original)

InvalidNumeric(original) == [msg |-> "Invalid numeric value: ", arg |-> original]

_parse_numeric_query(value) ==
    LET original == strip(value)
        split == SplitPrefix(original)
        n == py_int(split.number)
    IN  IF n.ok
        THEN [ok |-> TRUE, lookup |-> split.lookup, number |-> n.val]
        ELSE [ok |-> FALSE, error |-> InvalidNumeric(original)]

(***************************************************************************)
(* JSON values, as far as the handlers look at them.                       *)
(***************************************************************************)
Null == [t |-> "null"]

JsonInt(n) == [t |-> "int", v |-> n]

JsonStr(s) == [t |-> "str", s |-> s]

JsonList(n) == [t |-> "list", len |-> n]

\* A key the decoded object does not have.
Missing == [t |-> "missing"]

\* A decoded JSON number with a fraction or an exponent, Infinity or NaN: its class
\* and, when finite, its value truncated towards zero.
JsonFloat(cls, trunc) == [t |-> "float", cls |-> cls, trunc |-> trunc]

JsonBool(b) == [t |-> "bool", b |-> b]

\* A decoded JSON array with its items.
JsonArray(items) == [t |-> "list", len |-> Len(items), items |-> items]

EmptyDict == [t |-> "object"]

\* The number of keys of a decoded object.
KeyCount(obj) == Cardinality({k \in DOMAIN obj \ {"t"} : obj[k].t # "missing"})

\* Python truthiness of a decoded JSON value (None for an absent key); the floats in
\* use are not 0.0.
Truthy(v) ==
    CASE v.t \in {"null", "missing"} -> FALSE
      [] v.t = "int" -> v.v # 0
      [] v.t = "bool" -> v.b
      [] v.t = "str" -> v.s # <<>>
      [] v.t = "list" -> v.len # 0
      [] v.t = "object" -> KeyCount(v) # 0
      [] OTHER -> TRUE

(***************************************************************************)
(* The Hero table (heroapp/models.py).                                     *)
(***************************************************************************)
\* A plausible slip: the fields listed in another order.
NumericFieldsReversed == <<"power", "speed", "strength", "intelligence">>

NumericFields == <<"intelligence", "strength", "speed", "power">>

Hero(id, name, h) ==
    [id |-> id, name |-> name, intelligence |-> h.intelligence,
     strength |-> h.strength, speed |-> h.speed, power |-> h.power]

\* A plausible slip: the lookup key compared ignoring case.
RowsNamedIexact(rows, name) == {r \in rows : upper(r.name) = upper(name)}

\* Hero.objects.filter(name=...): the exact match the unique column is keyed by.
RowsNamed(rows, name) == {r \in rows : r.name = name}

\* A plausible slip: the column declared without unique=True.
NotUnique(rows, name) == FALSE

\* unique=True: an INSERT of a name already present raises IntegrityError.
UniqueViolation(rows, name) == RowsNamed(rows, name) # {}

InsertRow(rows, nid, h) == rows \cup {Hero(nid, h.name, h)}

\* obj.save(update_fields=...): the four stats of the row are overwritten.
UpdateRow(rows, old, h) == (rows \ {old}) \cup {Hero(old.id, old.name, h)}

\* Hero.objects.update_or_create(name=..., defaults=...), run without interference.
update_or_create(rows, nid, h) ==
    LET found == RowsNamed(rows, h.name)
    IN  IF found = {}
        THEN [store |-> InsertRow(rows, nid, h), nextId |-> nid + 1,
              obj |-> Hero(nid, h.name, h), created |-> TRUE]
        ELSE LET old == CHOOSE r \in found : TRUE
             IN  [store |-> UpdateRow(rows, old, h), nextId |-> nid,
                  obj |-> Hero(old.id, old.name, h), created |-> FALSE]

(***************************************************************************)
(* The external hero source.                                               *)
(***************************************************************************)
None == [found |-> FALSE]

NotCalled == [called |-> FALSE]

\* An exception that leaves the function.
Raise(exc) == [raised |-> exc]

IsRaise(h) == "raised" \in DOMAIN h

Success == JsonStr(<<"s", "u", "c", "c", "e", "s", "s">>)

\* The exceptions requests.get and raise_for_status raise, all RequestException,
\* and the one response.json() raises, a ValueError.
RequestException == {"ConnectionError", "Timeout", "HTTPError"}

ValueError == {"JSONDecodeError"}

\* int() of a str: the integer, or ValueError.
IntOfText(r) ==
    IF r.ok THEN [ok |-> TRUE, val |-> r.val] ELSE [ok |-> FALSE, exc |-> "ValueError"]

\* int(value) for a decoded JSON value: the integer, or the exception raised.
ToInt(value) ==
    CASE value.t = "int" -> [ok |-> TRUE, val |-> value.v]
      [] value.t = "bool" -> [ok |-> TRUE, val |-> IF value.b THEN 1 ELSE 0]
      [] value.t = "float" ->
            IF value.cls = "finite" THEN [ok |-> TRUE, val |-> value.trunc]
            ELSE IF value.cls = "nan" THEN [ok |-> FALSE, exc |-> "ValueError"]
            ELSE [ok |-> FALSE, exc |-> "OverflowError"]
      [] value.t = "str" -> IntOfText(py_int(value.s))
      [] OTHER -> [ok |-> FALSE, exc |-> "TypeError"]

\* except (TypeError, ValueError): return 0. Any other exception passes through.
Caught(r) ==
    IF r.ok THEN r
    ELSE IF r.exc \in {"TypeError", "ValueError"} THEN [ok |-> TRUE, val |-> 0]
    ELSE r

\* The stat as an integer, or the exception that escapes the except clause.
_convert_stat(value) ==
    IF value.t \in {"null", "missing"} THEN [ok |-> TRUE, val |-> 0]
    ELSE Caught(ToInt(value))

\* obj.get(key, default) on a dict.
Get(obj, key, default) ==
    IF key \in DOMAIN obj /\ obj[key].t # "missing" THEN obj[key] ELSE default

\* What `for entry in v` iterates over: the items of a list, the keys of a dict, the
\* characters of a str (keys and characters are str, whichever they are); any other
\* value is not iterable.
Iterate(v) ==
    CASE v.t = "list" -> [ok |-> TRUE, items |-> v.items]
      [] v.t = "object" -> [ok |-> TRUE, items |-> [i \in 1..KeyCount(v) |-> JsonStr(<<"k">>)]]
      [] v.t = "str" -> [ok |-> TRUE, items |-> [i \in 1..Len(v.s) |-> JsonStr(<<v.s[i]>>)]]
      [] OTHER -> [ok |-> FALSE]

\* x or {}
OrEmptyDict(x) == IF Truthy(x) THEN x ELSE EmptyDict

\* The dict literal of lines 101-107 (and 127-133), its stats converted: the first
\* conversion that raised, in the order written, ends the call.
ReturnedDict(entry, name, stat) ==
    LET failed == SelectSeq(<<"intelligence", "strength", "speed", "power">>,
                            LAMBDA f : ~stat[f].ok)
    IN  IF failed # <<>> THEN Raise(stat[Head(failed)].exc)
        ELSE [found |-> TRUE,
              name |-> Get(entry, "name", JsonStr(name)).s,
              intelligence |-> stat.intelligence.val,
              strength |-> stat.strength.val,
              speed |-> stat.speed.val,
              power |-> stat.power.val]

\* powerstats.get(...) on the four stats.
WithStats(entry, name, powerstats) ==
    IF powerstats.t # "object" THEN Raise("AttributeError")
    ELSE ReturnedDict(entry, name,
             [f \in {"intelligence", "strength", "speed", "power"} |->
                 _convert_stat(Get(powerstats, f, Null))])

\* What the loop returns for the matching entry (lines 100-107 and 126-133).
Normalized(entry, name) ==
    WithStats(entry, name, OrEmptyDict(Get(entry, "powerstats", EmptyDict)))

\* The loop over the entries (lines 98-108 and 124-134), from entry i on.
RECURSIVE ScanEntries(_, _, _, _)
ScanEntries(entries, i, name, target_name) ==
    IF i > Len(entries) THEN None
    ELSE LET entry == entries[i]
         IN  IF entry.t # "object" THEN Raise("AttributeError")
             ELSE LET entry_name == Get(entry, "name", JsonStr(<<>>))
                  IN  IF entry_name.t # "str" THEN Raise("AttributeError")
                      ELSE IF lower(entry_name.s) = target_name
                      THEN Normalized(entry, name)
                      ELSE ScanEntries(entries, i + 1, name, target_name)

\* The value the loop of the configured mode iterates over (lines 95-98 and 119-124):
\* the decoded body, or the results of a successful search.
Iterable(up) ==
    IF up.mode = "dataset" THEN [ok |-> TRUE, value |-> up.data]
    ELSE IF up.data.t # "object" THEN [ok |-> FALSE, result |-> Raise("AttributeError")]
    ELSE IF Get(up.data, "response", Null) # Success THEN [ok |-> FALSE, result |-> None]
    ELSE [ok |-> TRUE, value |-> Get(up.data, "results", JsonArray(<<>>))]

\* up: the configured mode, the exception the HTTP exchange or the decoding raises
\* ("ok" if none) and the decoded body.
_fetch_hero_from_api(name, up) ==
    LET target_name == lower(strip(name))
    IN  IF up.mode \notin {"dataset", "token"} THEN None
        ELSE IF up.status \in RequestException THEN None
        ELSE IF up.status \in ValueError THEN None
        ELSE LET it == Iterable(up)
             IN  IF ~it.ok THEN it.result
                 ELSE LET heroes == Iterate(it.value)
                      IN  IF ~heroes.ok THEN Raise("TypeError")
                          ELSE ScanEntries(heroes.items, 1, name, target_name)

(***************************************************************************)
(* Responses.                                                              *)
(***************************************************************************)
JsonResponse(body, status) == [status |-> status, body |-> body]

ErrorBody(msg, arg) == [error |-> [msg |-> msg, arg |-> arg]]

\* An exception no handler catches: the request ends outside the view's JSON contract.
Unhandled(exc) == [status |-> 500, body |-> [exception |-> exc]]

HeroDict(obj) ==
    [id |-> obj.id, name |-> obj.name, intelligence |-> obj.intelligence,
     strength |-> obj.strength, speed |-> obj.speed, power |-> obj.power]

(***************************************************************************)
(* _handle_post                                                            *)
(***************************************************************************)
\* payload.get('name'), None when the key is absent.
PayloadName(body) ==
    IF body.syntax = "json"
    THEN IF body.value.has_name THEN body.value.name ELSE Null
    ELSE IF body.has_name THEN JsonStr(body.name) ELSE Null

PostOutcome(rows, nid, r, h) ==
    [store |-> rows, nextId |-> nid, resp |-> r, hero_data |-> h]

\* A plausible slip: the name used as sent.
PostedNameUnstripped(raw) == IF Truthy(raw) THEN raw.s ELSE <<>>

\* (payload.get('name') or '').strip(), for a name that is a string or falsy.
PostedName(raw) == IF Truthy(raw) THEN strip(raw.s) ELSE <<>>

\* A plausible slip: the miss is cached as a row of zero stats.
HeroNotFoundStored(rows, nid, name, h) ==
    PostOutcome(rows \cup {[id |-> nid, name |-> name, intelligence |-> 0,
                            strength |-> 0, speed |-> 0, power |-> 0]},
        nid + 1, JsonResponse(ErrorBody("Hero not found", name), 404), h)

\* if not hero_data: 404, nothing written.
HeroNotFound(rows, nid, name, h) ==
    PostOutcome(rows, nid, JsonResponse(ErrorBody("Hero not found", name), 404), h)

\* Lines 194-217, with the outcome of the call of line 194.
StoreFetched(rows, nid, name, h) ==
    IF IsRaise(h) THEN PostOutcome(rows, nid, Unhandled(h.raised), h)
    ELSE IF ~h.found THEN HeroNotFound(rows, nid, name, h)
    ELSE LET u == update_or_create(rows, nid, h)
         IN  PostOutcome(u.store, u.nextId,
                 JsonResponse(HeroDict(u.obj), IF u.created THEN 201 ELSE 200), h)

_handle_post(rows, nid, body, up) ==
    IF body.syntax = "json" /\ body.value.t # "object"
    THEN PostOutcome(rows, nid, Unhandled("AttributeError"), NotCalled)
    ELSE
    LET raw == PayloadName(body)
    IN  IF Truthy(raw) /\ raw.t # "str"
        THEN PostOutcome(rows, nid, Unhandled("AttributeError"), NotCalled)
        ELSE
        LET name == PostedName(raw)
        IN  IF name = <<>>
            THEN PostOutcome(rows, nid,
                     JsonResponse(ErrorBody("Parameter \"name\" is required", <<>>), 400),
                     NotCalled)
            ELSE
            StoreFetched(rows, nid, name, _fetch_hero_from_api(name, up))

(***************************************************************************)
(* _handle_get                                                             *)
(***************************************************************************)
Absent == [present |-> FALSE]

Given(s) == [present |-> TRUE, value |-> s]

\* `if value:` on request.GET.get(...): present and not the empty string.
Supplied(p) == p.present /\ p.value # <<>>

\* A plausible slip: gte and lte compared strictly.
CompareStrict(lookup, x, n) ==
    CASE lookup = "exact" -> x = n
      [] lookup = "gt" -> x > n
      [] lookup = "gte" -> x > n
      [] lookup = "lt" -> x < n
      [] lookup = "lte" -> x < n

Compare(lookup, x, n) ==
    CASE lookup = "exact" -> x = n
      [] lookup = "gt" -> x > n
      [] lookup = "gte" -> x >= n
      [] lookup = "lt" -> x < n
      [] lookup = "lte" -> x <= n

\* The loop over numeric_fields: the filters so far, or the first parse error.
RECURSIVE ParseFilters(_, _, _)
ParseFilters(query, i, acc) ==
    IF i > Len(NumericFields) THEN [ok |-> TRUE, filters |-> acc]
    ELSE LET raw_value == query[NumericFields[i]]
         IN  IF Supplied(raw_value)
             THEN LET p == _parse_numeric_query(raw_value.value)
                  IN  IF p.ok
                      THEN ParseFilters(query, i + 1,
                               Append(acc, [field |-> NumericFields[i],
                                            lookup |-> p.lookup, number |-> p.number]))
                      ELSE [ok |-> FALSE, error |-> p.error]
             ELSE ParseFilters(query, i + 1, acc)

\* A plausible slip: the name filter compared exactly.
ExactName(a, b) == a = b

\* name__iexact
Iexact(a, b) == upper(a) = upper(b)

Selected(row, query, filters) ==
    /\ Supplied(query.name) => Iexact(row.name, query.name.value)
    /\ \A k \in 1..Len(filters) :
           Compare(filters[k].lookup, row[filters[k].field], filters[k].number)

\* Code point order of the characters in use, and the order of names it induces.
CodePoint(c) ==
    CASE c = " " -> 32 [] c = "A" -> 65 [] c = "B" -> 66 [] c = "a" -> 97
      [] c = "b" -> 98 [] OTHER -> 120

RECURSIVE NameLess(_, _)
NameLess(a, b) ==
    IF b = <<>> THEN FALSE
    ELSE IF a = <<>> THEN TRUE
    ELSE IF CodePoint(Head(a)) # CodePoint(Head(b))
         THEN CodePoint(Head(a)) < CodePoint(Head(b))
    ELSE NameLess(Tail(a), Tail(b))

\* The rows of a queryset that can come first: any row for an unordered queryset.
AnyFirst(rows) == rows

\* The rows that ORDER BY name can put first: those no other row's name precedes.
FirstByName(rows) == {x \in rows : \A y \in rows : ~NameLess(y.name, x.name)}

Firsts(rows) == FirstByName(rows)

\* qs.order_by('name'): every sequence the database may return for the rows. Rows
\* with equal names come in an order the database chooses.
RECURSIVE order_by_name(_)
order_by_name(rows) ==
    IF rows = {} THEN {<<>>}
    ELSE UNION {{<<m>> \o rest : rest \in order_by_name(rows \ {m})} : m \in Firsts(rows)}

\* The responses a GET may receive (one for each order the database may return).
_handle_get(rows, query) ==
    LET parsed == ParseFilters(query, 1, <<>>)
    IN  IF ~parsed.ok
        THEN {JsonResponse([error |-> parsed.error], 400)}
        ELSE
        LET qs == {row \in rows : Selected(row, query, parsed.filters)}
        IN  IF qs = {}
            THEN {JsonResponse(ErrorBody("No heroes match the given criteria", <<>>), 404)}
            ELSE {JsonResponse(
                      [heroes |-> [k \in 1..Len(ordered) |-> HeroDict(ordered[k])]], 200) :
                  ordered \in order_by_name(qs)}

\* The view's dispatch on request.method: the outcomes the request may have.
hero(rows, nid, request, up) ==
    IF request.method = "POST" THEN {_handle_post(rows, nid, request.body, up)}
    ELSE IF request.method = "GET"
    THEN {PostOutcome(rows, nid, r, NotCalled) : r \in _handle_get(rows, request.query)}
    ELSE {PostOutcome(rows, nid,
              JsonResponse(ErrorBody("Method not allowed", <<>>), 405), NotCalled)}

(***************************************************************************)
(* Inputs.                                                                 *)
(***************************************************************************)
SeqsUpTo(S, n) == UNION {[1..k -> S] : k \in 0..n}

RawChars == {" ", ">", "<", "=", "-", "+", "0", "1", "9", "_", "x"}

RawInputs == SeqsUpTo(RawChars, MaxRawLen)

\* Names a client POSTs, and names the upstream lists.
PostNames == {<<>>, <<" ">>, <<"a">>, <<" ", "a">>, <<"B">>}

UpNames == {<<"a">>, <<"A">>, <<"b">>}

PowerStats ==
    { [t |-> "object", intelligence |-> JsonInt(1), strength |-> JsonStr(<<"2">>),
       speed |-> Null, power |-> JsonStr(<<"x">>)],
      [t |-> "object", intelligence |-> JsonInt(0), strength |-> JsonInt(1),
       speed |-> JsonInt(2), power |-> JsonStr(<<"1">>)] }

Entries == [t : {"object"}, name : {JsonStr(n) : n \in UpNames}, powerstats : PowerStats]

EntryLists == SeqsUpTo(Entries, MaxEntries)

\* The body of a token search that found candidates.
Results(entries) == [t |-> "object", response |-> Success, results |-> JsonArray(entries)]

\* The body of a token search that found none.
NoResults ==
    [t |-> "object", response |-> JsonStr(<<"e", "r", "r", "o", "r">>), results |-> Missing]

Failures == RequestException \cup ValueError

\* Entries of a decoded body that are not what the loop expects: not a dict, a name
\* that is not a string, powerstats that are a non-empty list, a stat that is Infinity.
OddEntries ==
    { JsonInt(7),
      [t |-> "object", name |-> Null, powerstats |-> Missing],
      [t |-> "object", name |-> JsonStr(<<"a">>), powerstats |-> JsonList(1)],
      [t |-> "object", name |-> JsonStr(<<"a">>),
       powerstats |-> [t |-> "object", intelligence |-> JsonInt(1), strength |-> Missing,
                       speed |-> JsonFloat("inf", 0), power |-> JsonInt(1)]] }

\* Bodies that decode but are not the list (dataset) or the search result (token)
\* the code iterates over.
OddUpstreams ==
    [mode : {"dataset", "token"}, status : {"ok"}, data : {Null, JsonArray(<<>>), NoResults}]
    \cup {[mode |-> "dataset", status |-> "ok", data |-> JsonArray(<<e>>)] : e \in OddEntries}
    \cup {[mode |-> "token", status |-> "ok", data |-> Results(<<e>>)] : e \in OddEntries}
    \cup {[mode |-> "token", status |-> "ok",
           data |-> [t |-> "object", response |-> Success, results |-> Null]]}

NoUpstream == [mode |-> "none", status |-> "ok", data |-> Null]

Upstreams ==
    {NoUpstream}
    \cup [mode : {"dataset", "token"}, status : Failures, data : {Null}]
    \cup {[mode |-> "dataset", status |-> "ok", data |-> JsonArray(l)] : l \in EntryLists}
    \cup {[mode |-> "token", status |-> "ok", data |-> Results(l)] : l \in EntryLists}
    \cup OddUpstreams

JsonObject(v) == [t |-> "object", has_name |-> TRUE, name |-> v]

Bodies ==
    {[syntax |-> "json", value |-> JsonObject(JsonStr(n))] : n \in PostNames}
    \cup {[syntax |-> "json", value |-> JsonObject(v)] :
              v \in {Null, JsonInt(0), JsonInt(7), JsonList(0), JsonList(1)}}
    \cup {[syntax |-> "json", value |-> [t |-> "object", has_name |-> FALSE]]}
    \cup {[syntax |-> "json", value |-> v] :
              v \in {Null, JsonInt(7), JsonStr(<<"a">>), JsonList(0)}}
    \cup {[syntax |-> "form", has_name |-> TRUE, name |-> n] : n \in PostNames}
    \cup {[syntax |-> "form", has_name |-> FALSE]}

NameParams == {Absent, Given(<<>>), Given(<<"a">>), Given(<<" ", "a">>)}

\* Raw filter values: every operator, an empty value and a non-number.
FilterRaws ==
    {<<>>, <<"x">>, <<"1">>, <<">", "1">>, <<">", "=", "1">>, <<"<", "1">>,
     <<"<", "=", "1">>}

\* The raw values used when a GET supplies several numeric filters at once.
FilterRawsFew == {<<"x">>, <<">", "x">>, <<">", "=", "1">>}

FilterParams(raws) == {Absent} \cup {Given(v) : v \in raws}

FieldSet == {NumericFields[i] : i \in 1..Len(NumericFields)}

QueriesOver(names, raws) ==
    [name : names, intelligence : FilterParams(raws), strength : FilterParams(raws),
     speed : FilterParams(raws), power : FilterParams(raws)]

\* Every name parameter with at most one numeric filter, and every combination of
\* the few raw values over the four fields.
Queries ==
    {q \in QueriesOver(NameParams, FilterRaws) :
        Cardinality({f \in FieldSet : q[f].present}) <= 1}
    \cup QueriesOver({Absent, Given(<<"a">>)}, FilterRawsFew)

\* Names handed to the adapter: as stored upstream, in another case with whitespace
\* around, unknown upstream, and empty.
FetchNames == {<<"a">>, <<" ", "A">>, <<"B">>, <<>>}

\* Values a stat can decode to: absent, null, integers, numeric and other strings,
\* floats (1.9, NaN, Infinity), a boolean, a list.
StatValues ==
    {Missing, Null, JsonInt(3), JsonStr(<<"2">>), JsonStr(<<"x">>),
     JsonFloat("finite", 1), JsonFloat("nan", 0), JsonFloat("inf", 0),
     JsonBool(TRUE), JsonList(0)}

\* The values the other three stats take while one ranges over StatValues.
StatValuesFew == {Missing, JsonStr(<<"2">>), JsonFloat("inf", 0)}

StatDicts ==
    {d \in [t : {"object"}, intelligence : StatValues, strength : StatValues,
            speed : StatValues, power : StatValues] :
        Cardinality({f \in {"intelligence", "strength", "speed", "power"} :
                        d[f] \notin StatValuesFew}) <= 1}

\* Entries a decoded body can hold: dicts with every kind of name, with and without
\* powerstats; dicts named "a" with every other kind of powerstats; and values that
\* are not dicts.
FetchEntries ==
    [t : {"object"},
     name : {JsonStr(<<"a">>), JsonStr(<<"b">>), Missing, Null, JsonInt(7)},
     powerstats : {[t |-> "object", intelligence |-> JsonInt(1),
                    strength |-> JsonStr(<<"2">>), speed |-> Null,
                    power |-> JsonFloat("inf", 0)],
                   Missing}]
    \cup [t : {"object"}, name : {JsonStr(<<"a">>)},
          powerstats : {Null, JsonList(0), JsonList(1), JsonStr(<<"x">>)}]
    \cup {Null, JsonInt(7), JsonStr(<<"a">>)}

FetchLists == SeqsUpTo(FetchEntries, MaxEntries)

\* Decoded bodies: lists of entries, search results, and every other kind of value.
FetchDatas ==
    {JsonArray(l) : l \in FetchLists}
    \cup {Results(l) : l \in FetchLists}
    \cup {JsonArray(<<[t |-> "object", name |-> JsonStr(<<"a">>), powerstats |-> d]>>) :
              d \in StatDicts}
    \cup [t : {"object"}, response : {Success, Missing, Null, JsonInt(1)},
          results : {Missing, Null, JsonInt(7), JsonStr(<<>>), JsonStr(<<"a">>), EmptyDict}]
    \cup {Null, JsonInt(7), JsonBool(TRUE), JsonStr(<<>>), JsonStr(<<"a">>), EmptyDict}

FetchUpstreams ==
    [mode : {"none"}, status : {"ok"}, data : {Null, JsonArray(<<>>)}]
    \cup [mode : {"dataset", "token"}, status : Failures, data : {Null}]
    \cup [mode : {"dataset", "token"}, status : {"ok"}, data : FetchDatas]

OtherMethods == {"PUT", "DELETE"}

Clients == {"c1", "c2"}

\* The names two racing clients POST, and what lines 187-196 make of them.
ConcNames == {<<"a">>, <<" ", "a">>}

Resolutions ==
    {h \in {_fetch_hero_from_api(strip(n), up) : n \in ConcNames, up \in Upstreams} :
        ~IsRaise(h) /\ h.found}

(***************************************************************************)
(* The server answering one request at a time.                             *)
(***************************************************************************)
NoReq == [method |-> "NONE"]

NoResp == [status |-> 0]

Init ==
    /\ store = {}
    /\ nextId = 1
    /\ req = NoReq
    /\ resp = NoResp
    /\ hero_data = NotCalled
    /\ pc = [c \in Clients |-> "idle"]
    /\ local = [c \in Clients |-> [h |-> None, status |-> 0]]

Serve(request, up) ==
    \E o \in hero(store, nextId, request, up) :
        /\ req' = request
        /\ resp' = o.resp
        /\ hero_data' = o.hero_data
        /\ store' = o.store
        /\ nextId' = o.nextId
        /\ UNCHANGED <<pc, local>>

PostRequest ==
    /\ req = NoReq
    /\ \E body \in Bodies, up \in Upstreams :
           Serve([method |-> "POST", body |-> body], up)

GetRequest ==
    /\ req = NoReq
    /\ \E query \in Queries : Serve([method |-> "GET", query |-> query], NoUpstream)

\* The client that just stored a hero asks for it by the name it posted.
GetPosted ==
    /\ req.method = "POST"
    /\ resp.status \in {200, 201}
    /\ Serve([method |-> "GET",
              query |-> [name |-> Given(PayloadName(req.body).s),
                         intelligence |-> Absent, strength |-> Absent,
                         speed |-> Absent, power |-> Absent]],
             NoUpstream)

OtherRequest ==
    /\ req = NoReq
    /\ \E m \in OtherMethods : Serve([method |-> m], NoUpstream)

\* The response has been delivered; the server awaits the next request.
Finish ==
    /\ req # NoReq
    /\ req.method \in {"POST", "GET"} \cup OtherMethods
    /\ req' = NoReq
    /\ resp' = NoResp
    /\ hero_data' = NotCalled
    /\ UNCHANGED <<store, nextId, pc, local>>

Next == PostRequest \/ GetRequest \/ GetPosted \/ OtherRequest \/ Finish

Spec == Init /\ [][Next]_vars

(***************************************************************************)
(* The filter parser applied to every raw value up to MaxRawLen.           *)
(***************************************************************************)
InitParse ==
    /\ store = {}
    /\ nextId = 1
    /\ req \in {[method |-> "PARSE", raw |-> s] : s \in RawInputs}
    /\ resp = NoResp
    /\ hero_data = NotCalled
    /\ pc = [c \in Clients |-> "idle"]
    /\ local = [c \in Clients |-> [h |-> None, status |-> 0]]

Parse ==
    /\ req.method = "PARSE"
    /\ resp = NoResp
    /\ resp' = [status |-> 0, parsed |-> _parse_numeric_query(req.raw)]
    /\ UNCHANGED <<store, nextId, req, hero_data, pc, local>>

NextParse == Parse

SpecParse == InitParse /\ [][NextParse]_vars

(***************************************************************************)
(* The adapter applied to every name and upstream answer of the bounds.   *)
(***************************************************************************)
InitFetch ==
    /\ store = {}
    /\ nextId = 1
    /\ req \in {[method |-> "FETCH", name |-> n, up |-> u] :
                   n \in FetchNames, u \in FetchUpstreams}
    /\ resp = NoResp
    /\ hero_data = NotCalled
    /\ pc = [c \in Clients |-> "idle"]
    /\ local = [c \in Clients |-> [h |-> None, status |-> 0]]

Fetch ==
    /\ req.method = "FETCH"
    /\ hero_data = NotCalled
    /\ hero_data' = _fetch_hero_from_api(req.name, req.up)
    /\ UNCHANGED <<store, nextId, req, resp, pc, local>>

NextFetch == Fetch

SpecFetch == InitFetch /\ [][NextFetch]_vars

(***************************************************************************)
(* Concurrent POSTs: update_or_create statement by statement.              *)
(***************************************************************************)
\* Lines 187-196 of a POST that reaches update_or_create.
ConcBegin(c) ==
    /\ pc[c] = "idle"
    /\ \E h \in Resolutions :
           /\ local' = [local EXCEPT ![c] = [h |-> h, status |-> 0]]
           /\ pc' = [pc EXCEPT ![c] = "get"]
    /\ UNCHANGED <<store, nextId, req, resp, hero_data>>

\* get_or_create: self.get(name=...)
ConcGet(c) ==
    /\ pc[c] = "get"
    /\ pc' = [pc EXCEPT ![c] =
                 IF RowsNamed(store, local[c].h.name) # {} THEN "save" ELSE "create"]
    /\ UNCHANGED <<store, nextId, req, resp, hero_data, local>>

\* get_or_create: self.create(...), refused by the unique constraint if the name is taken.
ConcCreate(c) ==
    /\ pc[c] = "create"
    /\ IF UniqueViolation(store, local[c].h.name)
       THEN /\ pc' = [pc EXCEPT ![c] = "reget"]
            /\ UNCHANGED <<store, nextId, local>>
       ELSE /\ store' = InsertRow(store, nextId, local[c].h)
            /\ nextId' = nextId + 1
            /\ local' = [local EXCEPT ![c].status = 201]
            /\ pc' = [pc EXCEPT ![c] = "idle"]
    /\ UNCHANGED <<req, resp, hero_data>>

\* get_or_create: after IntegrityError, self.get(name=...) again.
ConcReget(c) ==
    /\ pc[c] = "reget"
    /\ RowsNamed(store, local[c].h.name) # {}
    /\ pc' = [pc EXCEPT ![c] = "save"]
    /\ UNCHANGED <<store, nextId, req, resp, hero_data, local>>

\* update_or_create: the defaults are set on the row found and it is saved.
ConcSave(c) ==
    /\ pc[c] = "save"
    /\ LET old == CHOOSE r \in RowsNamed(store, local[c].h.name) : TRUE
       IN  store' = UpdateRow(store, old, local[c].h)
    /\ local' = [local EXCEPT ![c].status = 200]
    /\ pc' = [pc EXCEPT ![c] = "idle"]
    /\ UNCHANGED <<nextId, req, resp, hero_data>>

NextConc ==
    \E c \in Clients :
        ConcBegin(c) \/ ConcGet(c) \/ ConcCreate(c) \/ ConcReget(c) \/ ConcSave(c)

SpecConc == Init /\ [][NextConc]_vars

(***************************************************************************)
(* Properties.                                                             *)
(***************************************************************************)
PostStep == req = NoReq /\ req'.method = "POST"

GetStep == req # req' /\ req'.method = "GET"

\* The adapter was called and resolved the name.
Resolved(h) == "found" \in DOMAIN h /\ h.found

\* The adapter was called and reported not-found.
Missed(h) == "found" \in DOMAIN h /\ ~h.found

HasError(r) == "error" \in DOMAIN r.body

SameStats(a, b) ==
    /\ a.intelligence = b.intelligence
    /\ a.strength = b.strength
    /\ a.speed = b.speed
    /\ a.power = b.power

WithName(rows, name) == {r \in rows : r.name = name}

\* C1: a POST the adapter resolves answers 201 exactly when no row with the resolved
\* name existed before it and 200 otherwise; an existing row keeps its id and name and
\* takes the fetched stats, a missing one is added, no other row changes, the name is
\* held by exactly one row afterwards, and the body is that row.
C1_PostCreatesOrUpdates ==
    [][(PostStep /\ Resolved(hero_data')) =>
        LET h == hero_data'
            before == WithName(store, h.name)
            after == WithName(store', h.name)
        IN  /\ resp'.status = IF before = {} THEN 201 ELSE 200
            /\ Cardinality(after) = 1
            /\ \A row \in after :
                   /\ SameStats(row, h)
                   /\ resp'.body = [id |-> row.id, name |-> h.name,
                                    intelligence |-> h.intelligence,
                                    strength |-> h.strength, speed |-> h.speed,
                                    power |-> h.power]
                   /\ before # {} => \A old \in before : old.id = row.id
                   /\ before = {} => \A other \in store : other.id # row.id
            /\ store' \ after = store \ before
       ]_vars

\* C1 witness: a re-POST of a stored name was answered 200 while other rows exist.
C1_Witness ==
    /\ req.method = "POST"
    /\ resp.status = 200
    /\ Resolved(hero_data)
    /\ Cardinality(store) >= 2

\* The name a POST sent, as sent (a string name in a JSON object or a form field).
SentName(request) == PayloadName(request.body).s

PostThenGet ==
    /\ req.method = "POST"
    /\ resp.status \in {200, 201}
    /\ req'.method = "GET"

\* C2 as claimed: after a successful POST, GET ?name=<the same name> answers 200 with
\* a single record whose stats are the fetched ones.
C2_Original ==
    [][PostThenGet =>
        /\ resp'.status = 200
        /\ Len(resp'.body.heroes) = 1
        /\ SameStats(resp'.body.heroes[1], hero_data)
       ]_vars

\* C2 amended: for a posted name without leading or trailing whitespace, the GET
\* answers 200, every record returned has the posted name up to letter case, exactly
\* one record carries the resolved name and its stats are the fetched ones, and it is
\* the only record unless the store holds another row whose name differs from the
\* resolved name only in letter case.
C2_PostThenGetByName ==
    [][(PostThenGet /\ strip(SentName(req)) = SentName(req)) =>
        /\ resp'.status = 200
        /\ LET heroes == resp'.body.heroes
               mine == {k \in 1..Len(heroes) : heroes[k].name = hero_data.name}
           IN  /\ Cardinality(mine) = 1
               /\ \A k \in mine : SameStats(heroes[k], hero_data)
               /\ \A k \in 1..Len(heroes) :
                      upper(heroes[k].name) = upper(SentName(req))
               /\ (\A row \in store' :
                       upper(row.name) = upper(hero_data.name) => row.name = hero_data.name)
                  => Len(heroes) = 1
       ]_vars

\* C2 witness: the GET after a POST found the single record although the posted name
\* and the stored name differ in letter case.
C2_Witness ==
    /\ req.method = "GET"
    /\ resp.status = 200
    /\ Len(resp.body.heroes) = 1
    /\ req.query.name.present
    /\ req.query.name.value # <<>>
    /\ req.query.name.value # resp.body.heroes[1].name
    /\ Cardinality(store) >= 2

\* C3: a POST for which the adapter reports not-found answers 404 with an error key
\* and leaves every row and the id counter as they were.
C3_NotFoundWritesNothing ==
    [][(PostStep /\ Missed(hero_data')) =>
        /\ resp'.status = 404
        /\ HasError(resp')
        /\ store' = store
        /\ nextId' = nextId
       ]_vars

\* C3 witness: a not-found POST was answered 404 on a store that holds rows.
C3_Witness ==
    /\ req.method = "POST"
    /\ Missed(hero_data)
    /\ resp.status = 404
    /\ store # {}

\* The request carries a name that is the empty string or only whitespace.
BlankName(request) ==
    LET v == PayloadName(request.body)
    IN  /\ request.body.syntax = "json" => request.body.value.t = "object"
        /\ IF request.body.syntax = "json"
           THEN request.body.value.has_name
           ELSE request.body.has_name
        /\ v.t = "str"
        /\ \A i \in 1..Len(v.s) : v.s[i] = " "

\* C4: a POST whose name is empty or whitespace-only answers 400 without calling the
\* adapter and without writing.
C4_BlankNameRejected ==
    [][(PostStep /\ BlankName(req')) =>
        /\ resp'.status = 400
        /\ HasError(resp')
        /\ hero_data' = NotCalled
        /\ store' = store
        /\ nextId' = nextId
       ]_vars

\* C4 witness: a whitespace-only name in the form-encoded fallback was answered 400.
C4_Witness ==
    /\ req.method = "POST"
    /\ req.body.syntax = "form"
    /\ req.body.has_name
    /\ req.body.name = <<" ">>
    /\ resp.status = 400
    /\ store # {}

\* Two readings of "a filter is supplied": the parameter is in the query string, or
\* it is there with a value that is not the empty string.
InQuery(p) == p.present

NonEmpty(p) == p.present /\ p.value # <<>>

FilterOrder == <<"intelligence", "strength", "speed", "power">>

Holds(lookup, x, n) ==
    \/ lookup = "exact" /\ x = n
    \/ lookup = "gt" /\ x > n
    \/ lookup = "gte" /\ x >= n
    \/ lookup = "lt" /\ x < n
    \/ lookup = "lte" /\ x <= n

AllParse(q, supplied(_)) ==
    \A i \in 1..4 :
        supplied(q[FilterOrder[i]]) => _parse_numeric_query(q[FilterOrder[i]].value).ok

Satisfies(row, q, supplied(_)) ==
    /\ supplied(q.name) => upper(row.name) = upper(q.name.value)
    /\ \A i \in 1..4 :
           supplied(q[FilterOrder[i]]) =>
               LET f == _parse_numeric_query(q[FilterOrder[i]].value)
               IN  Holds(f.lookup, row[FilterOrder[i]], f.number)

\* The response r lists exactly the rows of `rows` satisfying q, in ascending order of
\* name, or is a 404 with an error key when there is none.
Answers(r, rows, q, supplied(_)) ==
    LET want == {row \in rows : Satisfies(row, q, supplied)}
    IN  IF want = {}
        THEN r.status = 404 /\ HasError(r)
        ELSE /\ r.status = 200
             /\ Len(r.body.heroes) = Cardinality(want)
             /\ {r.body.heroes[k] : k \in 1..Len(r.body.heroes)} = want
             /\ \A i, j \in 1..Len(r.body.heroes) :
                    i < j => NameLess(r.body.heroes[i].name, r.body.heroes[j].name)

\* C5 as claimed: a GET whose filters in the query string all parse lists exactly the
\* rows satisfying every filter in the query string.
C5_Original ==
    [][(GetStep /\ AllParse(req'.query, InQuery)) =>
        Answers(resp', store, req'.query, InQuery)]_vars

\* C5 amended: a parameter given with an empty value counts as not supplied. A GET
\* whose non-empty numeric filters all parse answers 200 with exactly the stored
\* heroes satisfying all non-empty filters, in ascending order of name, and 404 with
\* an error key exactly when there is none; with no non-empty filter, all heroes.
C5_GetFilters ==
    [][(GetStep /\ AllParse(req'.query, NonEmpty)) =>
        Answers(resp', store, req'.query, NonEmpty)]_vars

\* C5 witness: a GET with a name filter and a numeric filter returned some but not all
\* of the rows whose name matches.
C5_Witness ==
    /\ req.method = "GET"
    /\ resp.status = 200
    /\ NonEmpty(req.query.name)
    /\ \E i \in 1..4 : NonEmpty(req.query[FilterOrder[i]])
    /\ Len(resp.body.heroes) = 1
    /\ Cardinality({row \in store : upper(row.name) = upper(req.query.name.value)}) = 2

\* The places, in the fixed order, of the fields whose supplied value the parser rejects.
Rejected(q, supplied(_)) ==
    {i \in 1..4 : supplied(q[FilterOrder[i]])
                  /\ ~_parse_numeric_query(q[FilterOrder[i]].value).ok}

Least(S) == CHOOSE i \in S : \A j \in S : i <= j

FailsWithFirst(r, q, supplied(_)) ==
    LET bad == Rejected(q, supplied)
    IN  IF bad = {} THEN r.status # 400
        ELSE /\ r.status = 400
             /\ r.body = [error |-> _parse_numeric_query(q[FilterOrder[Least(bad)]].value).error]

\* C7 as claimed: every numeric field in the query string is parsed, and a rejected
\* value gives 400 with the message of the first rejected field.
C7_Original == [][GetStep => FailsWithFirst(resp', req'.query, InQuery)]_vars

\* C7 amended: every numeric field given with a non-empty value is parsed (an empty
\* value is skipped like an absent field); a rejected value gives 400 with the
\* parser's message for the first rejected field in the order intelligence, strength,
\* speed, power, whatever the store holds, and no other GET answers 400.
C7_FirstInvalidField == [][GetStep => FailsWithFirst(resp', req'.query, NonEmpty)]_vars

\* C7 witness: two fields are rejected with different messages, after a field that
\* parses, on a store that holds rows; the 400 carries the first one's message.
C7_Witness ==
    /\ req.method = "GET"
    /\ store # {}
    /\ req.query.intelligence = Given(<<">", "=", "1">>)
    /\ req.query.strength = Given(<<">", "x">>)
    /\ req.query.power = Given(<<"x">>)
    /\ resp.status = 400
    /\ resp.body.error.arg = <<">", "x">>

\* The operator prefix of a stripped filter value and its length, by the table of the
\* documentation: >= gte, <= lte, > gt, < lt, none exact.
PrefixOf(o) ==
    IF Len(o) >= 2 /\ o[1] = ">" /\ o[2] = "=" THEN [lookup |-> "gte", len |-> 2]
    ELSE IF Len(o) >= 2 /\ o[1] = "<" /\ o[2] = "=" THEN [lookup |-> "lte", len |-> 2]
    ELSE IF Len(o) >= 1 /\ o[1] = ">" THEN [lookup |-> "gt", len |-> 1]
    ELSE IF Len(o) >= 1 /\ o[1] = "<" THEN [lookup |-> "lt", len |-> 1]
    ELSE [lookup |-> "exact", len |-> 0]

Unsigned(t) == IF t # <<>> /\ t[1] \in {"+", "-"} THEN Tail(t) ELSE t

\* An optional sign followed by one or more decimal digits and nothing else.
PlainDecimal(t) ==
    /\ Unsigned(t) # <<>>
    /\ \A i \in 1..Len(Unsigned(t)) : Unsigned(t)[i] \in DigitChars

\* What int() takes for a base-10 integer: a plain decimal, possibly surrounded by
\* whitespace and with single underscores between digits.
IntegerText(t) ==
    LET d == Unsigned(strip(t))
    IN  /\ d # <<>>
        /\ \A i \in 1..Len(d) :
               \/ d[i] \in DigitChars
               \/ /\ d[i] = "_"
                  /\ 1 < i
                  /\ i < Len(d)
                  /\ d[i - 1] \in DigitChars
                  /\ d[i + 1] \in DigitChars

RECURSIVE PlaceValue(_)
PlaceValue(d) ==
    IF d = <<>> THEN 0
    ELSE DigitVal(d[Len(d)]) + 10 * PlaceValue(SubSeq(d, 1, Len(d) - 1))

\* The integer a text denotes: its digits read in base 10, negated after a minus sign.
Denoted(t) ==
    LET v == PlaceValue(SelectSeq(t, LAMBDA c : c \in DigitChars))
    IN  IF \E i \in 1..Len(t) : t[i] = "-" THEN 0 - v ELSE v

\* C6: with the whitespace around the raw value ignored, the parser returns the
\* operator of the prefix (two-character prefixes before one-character ones) and the
\* integer the remainder denotes whenever the remainder is an integer text (every
\* plain decimal is one), and otherwise fails with the message naming the stripped
\* raw value.
C6_ParserTable ==
    "parsed" \in DOMAIN resp =>
        LET o == strip(req.raw)
            pre == PrefixOf(o)
            rem == SubSeq(o, pre.len + 1, Len(o))
            r == resp.parsed
        IN  /\ PlainDecimal(rem) => IntegerText(rem)
            /\ IF IntegerText(rem)
               THEN r = [ok |-> TRUE, lookup |-> pre.lookup, number |-> Denoted(rem)]
               ELSE r = [ok |-> FALSE,
                         error |-> [msg |-> "Invalid numeric value: ", arg |-> o]]

\* C6 witness: " <=-9" was parsed to (lte, -9).
C6_Witness ==
    /\ "parsed" \in DOMAIN resp
    /\ req.raw = <<"<", "=", "-", "9">>
    /\ resp.parsed = [ok |-> TRUE, lookup |-> "lte", number |-> 0 - 9]

\* C8: at most one Hero row per name, under every interleaving of the statements of
\* concurrent POSTs.
C8_OneRowPerName ==
    \A r1, r2 \in store : r1.name = r2.name => r1 = r2

\* C8 witness: two POSTs of the same name both found no row; one inserted it (201)
\* and the other's insert was refused by the unique constraint, so it will update.
C8_Witness ==
    \E c, d \in Clients :
        /\ c # d
        /\ pc[c] = "reget"
        /\ pc[d] = "idle"
        /\ local[d].status = 201
        /\ local[d].h.name = local[c].h.name

\* C9: every request ends with one JSON response: 405 "Method not allowed" and an
\* untouched store for a method other than POST or GET, and for POST and GET a status
\* among 200, 201, 400, 404 whose failures carry an error key; never an unhandled
\* error.
C9_AlwaysJsonError ==
    [][(req = NoReq /\ req' # NoReq) =>
        /\ req'.method \notin {"POST", "GET"} =>
               /\ resp' = JsonResponse(ErrorBody("Method not allowed", <<>>), 405)
               /\ store' = store
        /\ req'.method \in {"POST", "GET"} =>
               /\ resp'.status \in {200, 201, 400, 404}
               /\ resp'.status \in {400, 404} => HasError(resp')
       ]_vars

\* C10: only a successful POST changes the table, so a GET, whatever it answers,
\* leaves every row and the id counter as they were; and the answer of a GET is the
\* only answer its query can receive from the table as it stands.
C10_GetReadOnlyDeterministic ==
    [][/\ (store' # store \/ nextId' # nextId) =>
              req'.method = "POST" /\ resp'.status \in {200, 201}
       /\ GetStep =>
              /\ store' = store
              /\ nextId' = nextId
              /\ _handle_get(store, req'.query) = {resp'}
      ]_vars

\* C10 witness: a GET listed three heroes.
C10_Witness ==
    /\ req.method = "GET"
    /\ resp.status = 200
    /\ Len(resp.body.heroes) = 3
    /\ Cardinality(store) = 3

\* The entries the adapter is to scan in the body of an upstream answer, when the
\* body has the shape of its mode: a list (dataset mode), or a search result whose
\* results, if any, are a list (token mode).
Scanned(up) ==
    IF up.mode = "dataset" THEN up.data.items
    ELSE IF up.data.response # Success \/ up.data.results.t = "missing" THEN <<>>
    ELSE up.data.results.items

ShapedBody(up) ==
    IF up.mode = "dataset" THEN up.data.t = "list" /\ "items" \in DOMAIN up.data
    ELSE /\ up.data.t = "object"
         /\ "response" \in DOMAIN up.data
         /\ up.data.response.t \in {"str", "missing"}
         /\ up.data.results.t \in {"list", "missing"}
         /\ up.data.results.t = "list" => "items" \in DOMAIN up.data.results

\* An entry of the expected shape: a dict whose name, if any, is a string and whose
\* powerstats, if any, are a dict. An entry without a name is named "".
ShapedEntry(e) ==
    /\ e.t = "object"
    /\ e.name.t \in {"str", "missing"}
    /\ e.powerstats.t \in {"object", "missing", "null"}

Shaped(up) ==
    /\ ShapedBody(up)
    /\ \A i \in 1..Len(Scanned(up)) : ShapedEntry(Scanned(up)[i])

\* The places of the scanned entries whose name is the target up to letter case.
NameOf(e) == IF e.name.t = "str" THEN e.name.s ELSE <<>>

Matches(up, name) ==
    {i \in 1..Len(Scanned(up)) : upper(NameOf(Scanned(up)[i])) = upper(strip(name))}

\* A stat coerced to an integer: the integer an integer, a boolean, a finite float
\* or an integer text stands for, and 0 for anything else.
Coerced(v) ==
    CASE v.t = "int" -> v.v
      [] v.t = "bool" -> (IF v.b THEN 1 ELSE 0)
      [] v.t = "float" -> (IF v.cls = "finite" THEN v.trunc ELSE 0)
      [] v.t = "str" -> (IF IntegerText(v.s) THEN Denoted(v.s) ELSE 0)
      [] OTHER -> 0

StatOf(e, field) ==
    IF e.powerstats.t = "object" /\ field \in DOMAIN e.powerstats
    THEN e.powerstats[field] ELSE Missing

\* The adapter's answer is the first matching entry with each stat coerced on its
\* own, or not-found when no entry matches.
FirstMatchCoerced(h, up, name) ==
    IF Matches(up, name) = {} THEN h = None
    ELSE LET e == Scanned(up)[Least(Matches(up, name))]
         IN  h = [found |-> TRUE, name |-> IF e.name.t = "str" THEN e.name.s ELSE name,
                  intelligence |-> Coerced(StatOf(e, "intelligence")),
                  strength |-> Coerced(StatOf(e, "strength")),
                  speed |-> Coerced(StatOf(e, "speed")),
                  power |-> Coerced(StatOf(e, "power"))]

Fetched == req.method = "FETCH" /\ hero_data # NotCalled

\* C11: the fetch never propagates an error: in either mode a connection error, a
\* timeout, a non-2xx status, an undecodable body or a body that decodes to another
\* shape than expected gives not-found, with neither mode configured it gives
\* not-found, and a body of the expected shape gives the first entry matching the
\* name case-insensitively with each stat coerced to an integer on its own, 0 for an
\* absent, null, non-numeric or otherwise uninterpretable value.
C11_FetchNeverFails ==
    Fetched =>
        /\ ~IsRaise(hero_data)
        /\ IF req.up.mode = "none" \/ req.up.status # "ok" \/ ~Shaped(req.up)
           THEN hero_data = None
           ELSE FirstMatchCoerced(hero_data, req.up, req.name)

\* An Infinity among the four stats of the entry.
HasInfinity(e) ==
    \E f \in FieldSet : StatOf(e, f).t = "float" /\ StatOf(e, f).cls = "inf"

\* What the adapter does guarantee: not-found for every failure of the exchange or of
\* the decoding and without a configured mode; for a body of the expected shape, the
\* first match with its stats coerced unless one of them is Infinity, which raises
\* OverflowError; and for a body of another shape whatever the scan meets first.
FetchGuarantee ==
    Fetched =>
        IF req.up.mode = "none" \/ req.up.status # "ok" THEN hero_data = None
        ELSE IF ~Shaped(req.up)
        THEN IsRaise(hero_data) =>
                 hero_data.raised \in {"TypeError", "AttributeError", "OverflowError"}
        ELSE IF Matches(req.up, req.name) # {}
                /\ HasInfinity(Scanned(req.up)[Least(Matches(req.up, req.name))])
        THEN hero_data = Raise("OverflowError")
        ELSE FirstMatchCoerced(hero_data, req.up, req.name)

=============================================================================
